---- MODULE Spec2Model ----
(***************************************************************************)
(* Model of src/src/lab_2_3_LinearRegression.py: the LinearRegressor       *)
(* class (fit_simple, fit_multiple, predict) and evaluate_regression.      *)
(*                                                                         *)
(* Numbers.  A float is modelled by the exact value it stands for: a       *)
(* reduced fraction <<num, den>> with den > 0, or one of the IEEE special  *)
(* values <<0, 0>> (NaN), <<1, 0>> (+inf), <<-1, 0>> (-inf).  Division by  *)
(* zero yields these values as numpy's float64 does (a warning, never an   *)
(* exception).  Rounding is not modelled: every result below is the exact  *)
(* one.                                                                    *)
(*                                                                         *)
(* Arrays.  A numpy array is its shape and its elements in row-major       *)
(* order: [shape |-> <<n>>, data |-> <<v1, ..., vn>>] for a 1D array,      *)
(* [shape |-> <<n, k>>, data |-> <<v11, ..., v1k, ..., vn1, ..., vnk>>]    *)
(* for a 2D one.  None is the empty tuple.                                 *)
(***************************************************************************)
EXTENDS Integers, Sequences, FiniteSets, TLC

VARIABLES coefficients, intercept, call, data, pc

vars == <<coefficients, intercept, call, data, pc>>

None == <<>>

-----------------------------------------------------------------------------
(* float arithmetic, exact *)

NaN == <<0, 0>>
PosInf == <<1, 0>>

Sign(n) == IF n > 0 THEN 1 ELSE IF n < 0 THEN -1 ELSE 0

AbsInt(n) == IF n < 0 THEN -n ELSE n

RECURSIVE Gcd(_, _)
Gcd(a, b) == IF b = 0 THEN a ELSE Gcd(b, a % b)

Norm(n, d) ==
    IF d = 0 THEN <<Sign(n), 0>>
    ELSE IF d = 1 THEN <<n, 1>>
    ELSE LET g == Gcd(AbsInt(n), AbsInt(d))
             s == Sign(d)
         IN  <<(s * n) \div g, (s * d) \div g>>

R(n) == <<n, 1>>

Add(a, b) ==
    IF a[2] = 0 /\ b[2] = 0
    THEN (IF a = b THEN a ELSE NaN)
    ELSE Norm(a[1] * b[2] + b[1] * a[2], a[2] * b[2])

Neg(a) == <<-a[1], a[2]>>

Sub(a, b) == Add(a, Neg(b))

Mul(a, b) == Norm(a[1] * b[1], a[2] * b[2])

Recip(a) == Norm(a[2], a[1])

Div(a, b) == Mul(a, Recip(b))

Abs(a) == <<AbsInt(a[1]), a[2]>>

Square(a) == Mul(a, a)

(* np.sqrt: s * sqrt(r) / d with r square-free, as <<s, d, r>>; a rational *)
(* root has r = 1.  sqrt(NaN) = NaN, sqrt(+inf) = +inf, sqrt(x < 0) = NaN. *)
RECURSIVE SquarePart(_, _)
SquarePart(n, s) ==
    IF s * s > n THEN 1
    ELSE IF n % (s * s) = 0 THEN s * SquarePart(n \div (s * s), s)
    ELSE SquarePart(n, s + 1)

Sqrt(a) ==
    IF a[2] = 0 THEN (IF a = PosInf THEN <<1, 0, 1>> ELSE <<0, 0, 1>>)
    ELSE IF a[1] < 0 THEN <<0, 0, 1>>
    ELSE IF a[1] = 0 THEN <<0, 1, 1>>
    ELSE LET m == a[1] * a[2]
             s == SquarePart(m, 2)
             g == Gcd(s, a[2])
         IN  <<s \div g, a[2] \div g, m \div (s * s)>>

-----------------------------------------------------------------------------
(* numpy array operations *)

(* <<F(1), ..., F(n)>>, each element computed once *)
RECURSIVE TabFrom(_, _, _)
TabFrom(F(_), i, n) == IF i > n THEN <<>> ELSE <<F(i)>> \o TabFrom(F, i + 1, n)

Tab(F(_), n) == TabFrom(F, 1, n)

RECURSIVE Concat(_)
Concat(rows) == IF rows = <<>> THEN <<>> ELSE Head(rows) \o Concat(Tail(rows))

Arr1(s) == [shape |-> <<Len(s)>>, data |-> s]
Arr2(rows) == [shape |-> <<Len(rows), Len(rows[1])>>, data |-> Concat(rows)]

(* np.ndim(X) *)
NDim(X) == Len(X.shape)

(* the rows of a 2D array *)
Rows(X) ==
    Tab(LAMBDA r : SubSeq(X.data, (r - 1) * X.shape[2] + 1, r * X.shape[2]),
        X.shape[1])

RECURSIVE SumSeq(_)
SumSeq(s) == IF s = <<>> THEN R(0) ELSE Add(Head(s), SumSeq(Tail(s)))

(* X.reshape(1, -1): one row holding every element *)
Reshape1(X) == [shape |-> <<1, Len(X.data)>>, data |-> X.data]

(* np.mean over all elements *)
Mean(s) == Div(SumSeq(s), R(Len(s)))

(* len(X): the size of the first axis *)
LenArr(X) == X.shape[1]

(* two 1D operands broadcast together iff equal lengths or one of length 1 *)
Broadcastable(n, m) == n = m \/ n = 1 \/ m = 1

BLen(n, m) == IF n = 1 THEN m ELSE n

BAt(s, i) == IF Len(s) = 1 THEN s[1] ELSE s[i]

BSub(s, t) == Tab(LAMBDA i : Sub(BAt(s, i), BAt(t, i)), BLen(Len(s), Len(t)))

BMul(s, t) == Tab(LAMBDA i : Mul(BAt(s, i), BAt(t, i)), BLen(Len(s), Len(t)))

SubScalar(s, c) == Tab(LAMBDA i : Sub(s[i], c), Len(s))

AddScalar(s, c) == Tab(LAMBDA i : Add(s[i], c), Len(s))

MapSquare(s) == Tab(LAMBDA i : Square(s[i]), Len(s))

MapAbs(s) == Tab(LAMBDA i : Abs(s[i]), Len(s))

Dot(s, t) == SumSeq(Tab(LAMBDA i : Mul(s[i], t[i]), Len(s)))

(* np.dot(X, v) for a 2D X and a 1D v of the rows' length *)
MatVec(rows, v) == Tab(LAMBDA i : Dot(rows[i], v), Len(rows))

NCols(X) == X.shape[2]

(* faulty variant: the column of ones stacked last, not first *)
ColumnStackOnesLast(X) ==
    LET rows == Rows(X)
    IN  Tab(LAMBDA r : rows[r] \o <<R(1)>>, X.shape[1])

(* np.column_stack((np.ones(X.shape[0]), X)): the rows of X, each behind a *)
(* leading one                                                             *)
ColumnStackOnes(X) ==
    LET rows == Rows(X)
    IN  Tab(LAMBDA r : <<R(1)>> \o rows[r], X.shape[1])

(* np.dot(A.T, A) for the rows of A *)
Gram(rows) ==
    LET k == Len(rows[1])
    IN  Tab(LAMBDA a : Tab(LAMBDA b :
            SumSeq(Tab(LAMBDA i : Mul(rows[i][a], rows[i][b]), Len(rows))), k), k)

(* np.dot(A.T, y) for the rows of A and a 1D y of length Len(rows) *)
TDot(rows, y) ==
    Tab(LAMBDA a : SumSeq(Tab(LAMBDA i : Mul(rows[i][a], y[i]), Len(rows))),
        Len(rows[1]))

DropAt(s, j) == SubSeq(s, 1, j - 1) \o SubSeq(s, j + 1, Len(s))

Minor(M, r, c) ==
    LET rest == DropAt(M, r)
    IN  Tab(LAMBDA i : DropAt(rest[i], c), Len(rest))

RECURSIVE Det(_)
Det(M) ==
    IF Len(M) = 0 THEN R(1)
    ELSE IF Len(M) = 1 THEN M[1][1]
    ELSE IF Len(M) = 2
    THEN Sub(Mul(M[1][1], M[2][2]), Mul(M[1][2], M[2][1]))
    ELSE SumSeq(Tab(LAMBDA j :
            Mul(IF j % 2 = 1 THEN M[1][j] ELSE Neg(M[1][j]), Det(Minor(M, 1, j))),
            Len(M)))

(* faulty variant: an inversion that never reports a singular matrix *)
SingularNever(M) == FALSE

(* np.linalg.inv raises LinAlgError("Singular matrix") on a singular input *)
Singular(M) == Det(M) = R(0)

Inv(M) ==
    LET d == Det(M)
    IN  Tab(LAMBDA i : Tab(LAMBDA j :
            Div(IF (i + j) % 2 = 0 THEN Det(Minor(M, j, i))
                ELSE Neg(Det(Minor(M, j, i))), d), Len(M)), Len(M))

-----------------------------------------------------------------------------
(* the program: each operation as the outcome it ends with ("ok", or the   *)
(* exception it raises) and the fields or value it leaves                  *)

(* ValueError("Model is not yet fitted") *)
NotFitted == "ValueError: Model is not yet fitted"
(* numpy's ValueError: operands could not be broadcast together / shapes   *)
(* not aligned                                                             *)
ShapeError == "ValueError: shapes"
(* numpy.linalg.LinAlgError: Singular matrix *)
LinAlgError == "LinAlgError: Singular matrix"

(* faulty variant: the variance divided by n - 1, the covariance by n *)
fit_simple_sample_variance(c, i, X, y) ==
    LET X1 == IF NDim(X) > 1 THEN Reshape1(X) ELSE X
        xs == X1.data
        lenX == LenArr(X1)
        ys == y.data
        mx == Mean(xs)
        my == Mean(ys)
        dx == SubScalar(xs, mx)
        dy == SubScalar(ys, my)
    IN  IF ~Broadcastable(Len(xs), Len(ys))
        THEN [outcome |-> ShapeError, coefficients |-> c, intercept |-> i]
        ELSE LET cov == Div(SumSeq(BMul(dx, dy)), R(lenX))
                 var == Div(SumSeq(MapSquare(dx)), R(lenX - 1))
                 m == Div(cov, var)
                 n == Sub(my, Mul(m, mx))
             IN  [outcome |-> "ok", coefficients |-> <<m>>, intercept |-> n]

(* LinearRegressor.fit_simple(X, y), on a model holding (c, i) *)
fit_simple(c, i, X, y) ==
    LET X1 == IF NDim(X) > 1 THEN Reshape1(X) ELSE X
        xs == X1.data
        lenX == LenArr(X1)
        ys == y.data
        mx == Mean(xs)
        my == Mean(ys)
        dx == SubScalar(xs, mx)
        dy == SubScalar(ys, my)
    IN  IF ~Broadcastable(Len(xs), Len(ys))
        THEN [outcome |-> ShapeError, coefficients |-> c, intercept |-> i]
        ELSE LET cov == Div(SumSeq(BMul(dx, dy)), R(lenX))
                 var == Div(SumSeq(MapSquare(dx)), R(lenX))
                 m == Div(cov, var)
                 n == Sub(my, Mul(m, mx))
             IN  [outcome |-> "ok", coefficients |-> <<m>>, intercept |-> n]

(* faulty variant: the fields cleared on entry, before the fit can fail *)
fit_multiple_resetting(c, i, X, y) ==
    LET Xa == ColumnStackOnes(X)
        cov == Gram(Xa)
    IN  IF Singular(cov)
        THEN [outcome |-> LinAlgError, coefficients |-> None, intercept |-> None]
        ELSE IF Len(y.data) # Len(Xa)
        THEN [outcome |-> ShapeError, coefficients |-> None, intercept |-> None]
        ELSE LET coef == MatVec(Inv(cov), TDot(Xa, y.data))
             IN  [outcome |-> "ok",
                  coefficients |-> Tail(coef),
                  intercept |-> Head(coef)]

(* faulty variant: coefficients = coef, the bias term left in *)
fit_multiple_keeping_bias(c, i, X, y) ==
    LET Xa == ColumnStackOnes(X)
        cov == Gram(Xa)
    IN  IF Singular(cov)
        THEN [outcome |-> LinAlgError, coefficients |-> c, intercept |-> i]
        ELSE IF Len(y.data) # Len(Xa)
        THEN [outcome |-> ShapeError, coefficients |-> c, intercept |-> i]
        ELSE LET coef == MatVec(Inv(cov), TDot(Xa, y.data))
             IN  [outcome |-> "ok",
                  coefficients |-> coef,
                  intercept |-> Head(coef)]

(* LinearRegressor.fit_multiple(X, y), on a model holding (c, i) *)
fit_multiple(c, i, X, y) ==
    LET Xa == ColumnStackOnes(X)
        cov == Gram(Xa)
    IN  IF Singular(cov)
        THEN [outcome |-> LinAlgError, coefficients |-> c, intercept |-> i]
        ELSE IF Len(y.data) # Len(Xa)
        THEN [outcome |-> ShapeError, coefficients |-> c, intercept |-> i]
        ELSE LET coef == MatVec(Inv(cov), TDot(Xa, y.data))
             IN  [outcome |-> "ok",
                  coefficients |-> Tail(coef),
                  intercept |-> Head(coef)]

(* faulty variant: an unfitted model silently predicts zeros *)
predict_defaulting(c, i, X) ==
    IF c = None \/ i = None
    THEN [outcome |-> "ok", result |-> Tab(LAMBDA j : R(0), LenArr(X))]
    ELSE IF NDim(X) = 1
    THEN (IF Broadcastable(Len(c), Len(X.data))
          THEN [outcome |-> "ok", result |-> AddScalar(BMul(c, X.data), i)]
          ELSE [outcome |-> ShapeError, result |-> None])
    ELSE (IF NCols(X) = Len(c)
          THEN [outcome |-> "ok", result |-> AddScalar(MatVec(Rows(X), c), i)]
          ELSE [outcome |-> ShapeError, result |-> None])

(* LinearRegressor.predict(X), on a model holding (c, i) *)
predict(c, i, X) ==
    IF c = None \/ i = None
    THEN [outcome |-> NotFitted, result |-> None]
    ELSE IF NDim(X) = 1
    THEN (IF Broadcastable(Len(c), Len(X.data))
          THEN [outcome |-> "ok", result |-> AddScalar(BMul(c, X.data), i)]
          ELSE [outcome |-> ShapeError, result |-> None])
    ELSE (IF NCols(X) = Len(c)
          THEN [outcome |-> "ok", result |-> AddScalar(MatVec(Rows(X), c), i)]
          ELSE [outcome |-> ShapeError, result |-> None])

(* faulty variant: R2 = rss / tss, the "1 -" dropped *)
evaluate_regression_ratio(y_true, y_pred) ==
    IF ~Broadcastable(Len(y_true), Len(y_pred))
    THEN [outcome |-> ShapeError, result |-> None]
    ELSE LET diff == BSub(y_true, y_pred)
             rss == SumSeq(MapSquare(diff))
             tss == SumSeq(MapSquare(SubScalar(y_true, Mean(y_true))))
             r_squared == Div(rss, tss)
             sum_sqrd == SumSeq(MapSquare(MapAbs(diff)))
             rmse == Sqrt(Mul(Div(R(1), R(Len(y_true))), sum_sqrd))
             s == SumSeq(MapAbs(diff))
             mae == Mul(Div(R(1), R(Len(y_true))), s)
         IN  [outcome |-> "ok",
              result |-> [R2 |-> r_squared, RMSE |-> rmse, MAE |-> mae]]

(* evaluate_regression(y_true, y_pred), both 1D *)
evaluate_regression(y_true, y_pred) ==
    IF ~Broadcastable(Len(y_true), Len(y_pred))
    THEN [outcome |-> ShapeError, result |-> None]
    ELSE LET diff == BSub(y_true, y_pred)
             rss == SumSeq(MapSquare(diff))
             tss == SumSeq(MapSquare(SubScalar(y_true, Mean(y_true))))
             r_squared == Sub(R(1), Div(rss, tss))
             sum_sqrd == SumSeq(MapSquare(MapAbs(diff)))
             rmse == Sqrt(Mul(Div(R(1), R(Len(y_true))), sum_sqrd))
             s == SumSeq(MapAbs(diff))
             mae == Mul(Div(R(1), R(Len(y_true))), s)
         IN  [outcome |-> "ok",
              result |-> [R2 |-> r_squared, RMSE |-> rmse, MAE |-> mae]]

-----------------------------------------------------------------------------
(* inputs *)

(* longest 1D input and most rows of a 2D input *)
MaxLen == 3

(* numbers of predictor columns of a 2D input *)
NumCols == {1, 2}

ToR(s) == Tab(LAMBDA j : R(s[j]), Len(s))

Vec(s) == Arr1(ToR(s))

Mat(rows) == Arr2(Tab(LAMBDA r : ToR(rows[r]), Len(rows)))

(* the spec's concrete scenarios *)
X4 == Vec(<<1, 2, 3, 4>>)
y4 == Vec(<<2, 4, 6, 8>>)
X5 == Vec(<<5>>)
X6 == Mat(<<<<1, 1>>, <<1, 2>>, <<2, 2>>, <<2, 3>>>>)
y6 == Vec(<<6, 8, 9, 11>>)

(* [1, 2, ..., n] and [1, 1, ..., 1] *)
Ramp(n) == Vec(Tab(LAMBDA j : j, n))
Ones(n) == Vec(Tab(LAMBDA j : 1, n))

(* n x k inputs: the unit columns (independent of each other and of the    *)
(* bias column when n > k) and the columns j * [1, ..., n] (collinear)     *)
Eye(n, k) == Mat(Tab(LAMBDA r : Tab(LAMBDA j : IF r = j THEN 1 ELSE 0, k), n))
Prop(n, k) == Mat(Tab(LAMBDA r : Tab(LAMBDA j : r * j, k), n))

Pool1D == {Ramp(n) : n \in 1..MaxLen} \cup {Ones(n) : n \in 1..MaxLen}

Pool2D ==
    {Eye(n, k) : n \in 1..MaxLen, k \in NumCols}
        \cup {Prop(n, k) : n \in 1..MaxLen, k \in NumCols}

Pool == Pool1D \cup Pool2D

(* the responses offered to a fit, and the sequences offered to            *)
(* evaluate_regression                                                      *)
PoolY == {Ramp(n) : n \in 1..MaxLen}

-----------------------------------------------------------------------------
(* the regressor's life: any sequence of calls on one LinearRegressor.     *)
(* call records the last call: the operation, how it ended, the fields as  *)
(* they were before it, the shape of the X of a fit, the input of a        *)
(* predict or the two inputs of an evaluate_regression, and the value      *)
(* returned.                                                               *)

Called(op, outcome, before, xshape, X, y, result) ==
    [op |-> op, outcome |-> outcome, before |-> before, xshape |-> xshape,
     X |-> X, y |-> y, result |-> result]

(* LinearRegressor.__init__ *)
Init ==
    /\ coefficients = None
    /\ intercept = None
    /\ call = Called("__init__", "ok", <<None, None>>, None, None, None, None)
    /\ data = None
    /\ pc = "api"

DoFitSimple(X, y) ==
    LET r == fit_simple(coefficients, intercept, X, y)
    IN  /\ coefficients' = r.coefficients
        /\ intercept' = r.intercept
        /\ call' = Called("fit_simple", r.outcome, <<coefficients, intercept>>,
                          X.shape, None, None, None)

DoFitMultiple(X, y) ==
    LET r == fit_multiple(coefficients, intercept, X, y)
    IN  /\ coefficients' = r.coefficients
        /\ intercept' = r.intercept
        /\ call' = Called("fit_multiple", r.outcome, <<coefficients, intercept>>,
                          X.shape, None, None, None)

DoPredict(X) ==
    LET r == predict(coefficients, intercept, X)
    IN  /\ call' = Called("predict", r.outcome, <<coefficients, intercept>>,
                          None, X, None, r.result)
        /\ UNCHANGED <<coefficients, intercept>>

DoEvaluateRegression(y_true, y_pred) ==
    LET r == evaluate_regression(y_true.data, y_pred.data)
    IN  /\ call' = Called("evaluate_regression", r.outcome,
                          <<coefficients, intercept>>, None, y_true, y_pred,
                          r.result)
        /\ UNCHANGED <<coefficients, intercept>>

FitSimple(X, y) == pc = "api" /\ DoFitSimple(X, y) /\ UNCHANGED <<data, pc>>

FitMultiple(X, y) == pc = "api" /\ DoFitMultiple(X, y) /\ UNCHANGED <<data, pc>>

Predict(X) == pc = "api" /\ DoPredict(X) /\ UNCHANGED <<data, pc>>

EvaluateRegression(y_true, y_pred) ==
    pc = "api" /\ DoEvaluateRegression(y_true, y_pred) /\ UNCHANGED <<data, pc>>

Next ==
    \/ \E X \in Pool, y \in PoolY : FitSimple(X, y)
    \/ \E X \in Pool2D, y \in PoolY : FitMultiple(X, y)
    \/ \E X \in Pool : Predict(X)
    \/ \E yt \in PoolY, yp \in PoolY : EvaluateRegression(yt, yp)

Spec == Init /\ [][Next]_vars

-----------------------------------------------------------------------------
(* fit_simple, predict and evaluate_regression on a perfectly linear       *)
(* dataset y = a * X + b: one fit, one predict, one evaluation of the      *)
(* prediction against y                                                    *)

(* slopes and intercepts: -2, -1, -1/2, 0, 1/2, 1, 2 *)
Coefs == {Norm(p, q) : p \in -2..2, q \in 1..2}

XVals == {0, 1, 2}

LinearX ==
    UNION {{Vec(s) : s \in [1..n -> XVals]} : n \in 1..MaxLen} \cup {X4}

LinearY(a, b, X) == Arr1(Tab(LAMBDA j : Add(Mul(a, X.data[j]), b), Len(X.data)))

InitLinear ==
    /\ coefficients = None
    /\ intercept = None
    /\ call = Called("__init__", "ok", <<None, None>>, None, None, None, None)
    /\ \E a \in Coefs, b \in Coefs, X \in LinearX :
           data = [a |-> a, b |-> b, X |-> X, y |-> LinearY(a, b, X)]
    /\ pc = "start"

LinearFit ==
    /\ pc = "start"
    /\ DoFitSimple(data.X, data.y)
    /\ pc' = "fitted"
    /\ UNCHANGED data

LinearPredict(X) ==
    /\ pc = "fitted"
    /\ DoPredict(X)
    /\ pc' = "predicted"
    /\ UNCHANGED data

LinearEvaluate ==
    /\ pc = "predicted"
    /\ call.X = data.X
    /\ call.outcome = "ok"
    /\ DoEvaluateRegression(data.y, Arr1(call.result))
    /\ pc' = "evaluated"
    /\ UNCHANGED data

NextLinear ==
    \/ LinearFit
    \/ \E X \in {data.X, X5} : LinearPredict(X)
    \/ LinearEvaluate

SpecLinear == InitLinear /\ [][NextLinear]_vars

-----------------------------------------------------------------------------
(* fit_multiple on a fresh regressor, one call per dataset *)

MVals == {0, 1}

Matrices ==
    UNION {{Mat(m) : m \in [1..n -> [1..k -> MVals]]} :
              n \in 1..MaxLen, k \in NumCols}
        \cup {Prop(n, k) : n \in 1..MaxLen, k \in NumCols}

InitMultiple ==
    /\ coefficients = None
    /\ intercept = None
    /\ call = Called("__init__", "ok", <<None, None>>, None, None, None, None)
    /\ \/ \E X \in Matrices, d \in {0, 1} :
              data = [X |-> X, y |-> Ramp(X.shape[1] + d)]
       \/ data = [X |-> X6, y |-> y6]
    /\ pc = "start"

MultipleFit ==
    /\ pc = "start"
    /\ DoFitMultiple(data.X, data.y)
    /\ pc' = "fitted"
    /\ UNCHANGED data

MultiplePredict ==
    /\ pc = "fitted"
    /\ DoPredict(data.X)
    /\ pc' = "predicted"
    /\ UNCHANGED data

NextMultiple == MultipleFit \/ MultiplePredict

SpecMultiple == InitMultiple /\ [][NextMultiple]_vars

-----------------------------------------------------------------------------
(* properties of the regressor's life (Spec) *)

(* C1: predict on a regressor on which no fit has succeeded raises the     *)
(* unfitted-model ValueError and returns nothing, whatever the input's     *)
(* shape.                                                                  *)
C1_UnfittedPredictRaises ==
    (call.op = "predict" /\ call.before = <<None, None>>)
        => (call.outcome = NotFitted /\ call.result = None)

C1_Witness ==
    /\ call.op = "predict"
    /\ call.before = <<None, None>>
    /\ NDim(call.X) = 2
    /\ call.outcome = NotFitted

(* C2: a step changes coefficients or intercept only if it is a            *)
(* fit_simple or fit_multiple call that succeeded; predict,                *)
(* evaluate_regression and failing fits leave both fields as they were.    *)
C2_OnlySuccessfulFitWrites ==
    [][(coefficients' # coefficients \/ intercept' # intercept)
          => (call'.op \in {"fit_simple", "fit_multiple"} /\ call'.outcome = "ok")]_vars

(* a fit_multiple that failed on a singular matrix on a fitted regressor *)
C2_Witness ==
    /\ call.op = "fit_multiple"
    /\ call.outcome = LinAlgError
    /\ call.before[1] # None
    /\ <<coefficients, intercept>> = call.before

(* C3: after every call coefficients is unset iff intercept is unset; a    *)
(* successful fit_simple leaves exactly one coefficient and a successful   *)
(* fit_multiple on k predictor columns exactly k, whatever was stored      *)
(* before.                                                                 *)
C3_FieldsSetTogether ==
    /\ (coefficients = None) <=> (intercept = None)
    /\ (call.op = "fit_simple" /\ call.outcome = "ok")
           => (Len(coefficients) = 1 /\ intercept # None)
    /\ (call.op = "fit_multiple" /\ call.outcome = "ok")
           => (Len(coefficients) = call.xshape[2] /\ intercept # None)

(* a fit_simple that succeeded on a regressor holding two coefficients *)
C3_Witness ==
    /\ call.op = "fit_simple"
    /\ call.outcome = "ok"
    /\ Len(call.before[1]) = 2
    /\ Len(coefficients) = 1

(* C7, as claimed: evaluate_regression raises a dimension-mismatch error   *)
(* whenever the two sequences differ in length, a length of 1 included.    *)
C7_MismatchedLengthsRaise ==
    (call.op = "evaluate_regression" /\ Len(call.X.data) # Len(call.y.data))
        => call.outcome = ShapeError

(* C9, as claimed: a successful predict on a 1D input returns              *)
(* coefficients[0] * X[i] + intercept for each i, and on a 2D input        *)
(* X . coefficients + intercept, however many coefficients the fit left.   *)
C9_PredictFormula ==
    (call.op = "predict" /\ call.outcome = "ok")
        => call.result =
              (IF NDim(call.X) = 1
               THEN Tab(LAMBDA j : Add(Mul(coefficients[1], call.X.data[j]),
                                       intercept), Len(call.X.data))
               ELSE Tab(LAMBDA r : Add(Dot(Rows(call.X)[r], coefficients),
                                       intercept), call.X.shape[1]))

(* C10, as claimed: on a fitted regressor predict raises a                 *)
(* dimension-mismatch error for a 1D input when two or more coefficients   *)
(* are stored, and for a 2D input whose number of columns differs from     *)
(* the number of coefficients.                                             *)
C10_MismatchedShapeRaises ==
    (/\ call.op = "predict"
     /\ coefficients # None
     /\ IF NDim(call.X) = 1 THEN Len(coefficients) >= 2
        ELSE call.X.shape[2] # Len(coefficients))
        => call.outcome = ShapeError

-----------------------------------------------------------------------------
(* properties of the perfectly linear datasets (SpecLinear) *)

NonConstant(X) == \E j \in 1..Len(X.data) : X.data[j] # X.data[1]

LinearCase == LenArr(data.X) >= 2 /\ NonConstant(data.X)

(* C4: on y = a * X + b with n >= 2 and X not constant, fit_simple stores  *)
(* coefficients = [a] and intercept = b; on X = [1,2,3,4], y = [2,4,6,8]   *)
(* it stores [2] and 0, and predict([5]) then returns [10].                *)
C4_FitSimpleRecoversLine ==
    /\ (pc # "start" /\ LinearCase)
           => (coefficients = <<data.a>> /\ intercept = data.b)
    /\ (pc = "predicted" /\ data.X = X4 /\ data.y = y4 /\ call.X = X5)
           => (/\ coefficients = <<R(2)>>
               /\ intercept = R(0)
               /\ call.outcome = "ok"
               /\ call.result = <<R(10)>>)

C4_Witness ==
    /\ pc = "predicted"
    /\ data.X = X4
    /\ data.y = y4
    /\ call.X = X5
    /\ call.result = <<R(10)>>

PerfectMetrics == [R2 |-> R(1), RMSE |-> <<0, 1, 1>>, MAE |-> R(0)]

(* C5, as claimed: on every such dataset, any a and b, predict(X)          *)
(* reproduces y and evaluate_regression(y, predict(X)) returns R2 = 1,     *)
(* RMSE = 0, MAE = 0.                                                      *)
C5_PerfectFitMetrics ==
    /\ (pc = "predicted" /\ LinearCase /\ call.X = data.X)
           => (call.outcome = "ok" /\ call.result = data.y.data)
    /\ (pc = "evaluated" /\ LinearCase)
           => (call.outcome = "ok" /\ call.result = PerfectMetrics)

(* C5, amended: predict(X) reproduces y and RMSE = 0, MAE = 0 for every a  *)
(* and b; R2 = 1 when a # 0, and R2 is NaN (0/0) when a = 0, where y is    *)
(* constant and TSS = 0.                                                   *)
C5_PerfectFitMetricsNonzeroSlope ==
    /\ (pc = "predicted" /\ LinearCase /\ call.X = data.X)
           => (call.outcome = "ok" /\ call.result = data.y.data)
    /\ (pc = "evaluated" /\ LinearCase)
           => (/\ call.outcome = "ok"
               /\ call.y = data.y
               /\ call.result.RMSE = <<0, 1, 1>>
               /\ call.result.MAE = R(0)
               /\ call.result.R2 = (IF data.a = R(0) THEN NaN ELSE R(1)))

C5_Witness ==
    /\ pc = "evaluated"
    /\ LinearCase
    /\ data.a # R(0)
    /\ call.result = PerfectMetrics

-----------------------------------------------------------------------------
(* properties of fit_multiple (SpecMultiple) *)

(* C6, as claimed: fit_multiple on X = [[1,1],[1,2],[2,2],[2,3]],           *)
(* y = [6,8,9,11] succeeds and stores intercept = 1, coefficients = [2, 1]. *)
C6_Scenario ==
    (pc = "fitted" /\ data.X = X6 /\ data.y = y6)
        => (/\ call.outcome = "ok"
            /\ intercept = R(1)
            /\ coefficients = <<R(2), R(1)>>)

(* C6, amended: on that dataset fit_multiple succeeds and stores           *)
(* intercept = 3, coefficients = [1, 2], in input-column order: the        *)
(* normal-equations solution is (3, 1, 2), and y = 3 + 1 * x1 + 2 * x2     *)
(* on every row.                                                           *)
C6_ScenarioSolution ==
    (pc = "fitted" /\ data.X = X6 /\ data.y = y6)
        => (/\ call.outcome = "ok"
            /\ intercept = R(3)
            /\ coefficients = <<R(1), R(2)>>)

C6_Witness ==
    /\ pc = "fitted"
    /\ data.X = X6
    /\ data.y = y6
    /\ call.outcome = "ok"
    /\ intercept = R(3)

(* the columns of the ones-augmented X are linearly dependent with small   *)
(* integer weights: a constant column, proportional or equal columns, a    *)
(* column that is a combination of the others                              *)
Collinear(X) ==
    LET k == X.shape[2]
    IN  \E w \in [1..(k + 1) -> {-2, -1, 0, 1, 2}] :
            /\ \E j \in 1..(k + 1) : w[j] # 0
            /\ \A r \in 1..X.shape[1] :
                   SumSeq(<<R(w[1])>> \o
                          Tab(LAMBDA j : Mul(R(w[j + 1]), Rows(X)[r][j]), k)) = R(0)

====
